---- MODULE Spec2Model ----
(***************************************************************************)
(* Model of package config (localManager[T]) as used with T = Config,      *)
(* Config{Secret string}.  Several goroutines call Get, Update, InitData,  *)
(* OnChange and the cancel closures on one shared *localManager; every     *)
(* statement between two lock operations is one step.                      *)
(***************************************************************************)
EXTENDS Integers, Sequences, FiniteSets, TLC

\* ------------------------------------------------------------- bounds
NumThreads == 2
MaxOps == 4

Threads == 1..NumThreads

\* ------------------------------------------------------------- values
\* A Config holds one string; a Go string is two machine words, the data
\* pointer and the length, which a reader copies one after the other.
Nil == "nil"

\* The *localManager every goroutine shares.
Self == "m"
NoThread == 0

ZeroValue == [ptr |-> 0, len |-> 0]

HelloWorld == [ptr |-> 1, len |-> 11]

UpdatedSecret == [ptr |-> 2, len |-> 14]

Values == {ZeroValue, HelloWorld, UpdatedSecret}

\* reflect.DeepEqual on two Config values: field by field.
DeepEqual(a, b) == a.ptr = b.ptr /\ a.len = b.len

\* A zero check that takes every value for the zero value.
isZeroValueAlways(value) == TRUE

isZeroValue(value) == DeepEqual(value, ZeroValue)

\* The observers callers register: two that only record the value and return,
\* and one whose body calls back into the holder, m.Get() or m.Update(v).
Observers == {"cb1", "cb2", "cbReenter"}

\* What an observer's body may do with the holder before it returns.
Body(cb) == IF cb = "cbReenter" THEN {"Get", "Update"} ELSE {"return"}

VARIABLES
    data,       \* m.data
    callback,   \* m.callback (Nil: no observer)
    conf,       \* the Manager[T] the callers hold: what Local() and the
                \* latest InitData returned
    mu,         \* m.mu: writer (holds or waits for the exclusive mode),
                \* readers (hold the shared mode), blocked (readers queued
                \* behind the writer)
    pc,         \* each goroutine's position
    op,         \* the method each goroutine is executing
    nested,     \* the goroutine is inside the observer invoked by Update
    arg,        \* newData / initialData of the call
    argcb,      \* callback argument of OnChange / the cancel closure called
    ret,        \* the words Get has copied so far / returns
    handles,    \* the cancel closures OnChange has returned, each named by
                \* the observer its OnChange registered
    fired,      \* observer invocations made by the goroutine's current Update
    nops,       \* number of calls started
    \* history of what took effect, read only by the properties
    lastWrite,  \* the latest write to m.data: its method and argument
    written,    \* every value m.data has held
    lastReg,    \* the observer of the latest OnChange that took effect
    cancelled,  \* observers whose cancel closure ran since that OnChange
    before,     \* m.data as it was when the goroutine got the exclusive mode
    err,        \* the errorx.Error the latest Update returned
    \* package errorx and the Etcd constructor
    heap,       \* the error values allocated so far; address 0 is nil
    wrap,       \* the latest call of Wrap: its argument and its result
    made,       \* per error value: the error its chain of Wraps started from
                \* and the number of Wraps since
    etcd,       \* the latest call of Etcd[T](): what it handed back
    \* the order of writes and notifications, kept while one observer stays
    writeLog,   \* the values Update stored, in order
    obsLog      \* the arguments the observer was invoked with, in order

mvars == <<data, callback, conf, mu, handles, pc, op, nested, arg, argcb, ret,
           fired, nops, lastWrite, written, lastReg, cancelled, before>>

lib == <<heap, wrap, made, etcd>>
logs == <<writeLog, obsLog>>
rest == <<err, lib, logs>>

vars == <<mvars, err, lib, logs>>

holder == <<data, callback, conf>>
locals == <<arg, argcb, ret, fired>>
history == <<lastWrite, written, lastReg, cancelled, before>>

\* A constructor that hands out a holder with an observer already set.
LocalWithObserver ==
    /\ data = ZeroValue
    /\ callback = "cb1"
    /\ conf = Self
    /\ mu = [writer |-> NoThread, readers |-> {}, blocked |-> {}]

Local ==
    /\ data = ZeroValue
    /\ callback = Nil
    /\ conf = Self
    /\ mu = [writer |-> NoThread, readers |-> {}, blocked |-> {}]

\* No Update has returned, no error exists, Etcd has not been called.
NoResult == "none"

InitRest ==
    /\ err = NoResult
    /\ heap = <<>>
    /\ wrap = [called |-> FALSE, arg |-> 0, res |-> 0]
    /\ made = <<>>
    /\ etcd = [called |-> FALSE, mgr |-> Nil, panics |-> FALSE]
    /\ writeLog = <<>>
    /\ obsLog = <<>>

Init ==
    /\ Local
    /\ InitRest
    /\ pc = [t \in Threads |-> "idle"]
    /\ op = [t \in Threads |-> "none"]
    /\ nested = [t \in Threads |-> FALSE]
    /\ arg = [t \in Threads |-> ZeroValue]
    /\ argcb = [t \in Threads |-> Nil]
    /\ ret = [t \in Threads |-> ZeroValue]
    /\ handles = {}
    /\ fired = [t \in Threads |-> <<>>]
    /\ nops = 0
    /\ lastWrite = [op |-> "none", val |-> ZeroValue]
    /\ written = {ZeroValue}
    /\ lastReg = Nil
    /\ cancelled = {}
    /\ before = [t \in Threads |-> ZeroValue]

\* ------------------------------------------------------------- calls
Call(t, method, first) ==
    /\ pc[t] = "idle"
    /\ nops < MaxOps
    /\ nops' = nops + 1
    /\ op' = [op EXCEPT ![t] = method]
    /\ pc' = [pc EXCEPT ![t] = first]

CallGet(t) ==
    /\ Call(t, "Get", "rlock")
    /\ UNCHANGED <<holder, mu, handles, nested, locals, history>>

CallUpdate(t, newData) ==
    /\ Call(t, "Update", "lock")
    /\ arg' = [arg EXCEPT ![t] = newData]
    /\ UNCHANGED <<holder, mu, handles, nested, argcb, ret, fired, history>>

CallInitData(t, initialData) ==
    /\ Call(t, "InitData", "lock")
    /\ arg' = [arg EXCEPT ![t] = initialData]
    /\ UNCHANGED <<holder, mu, handles, nested, argcb, ret, fired, history>>

CallOnChange(t, cb) ==
    /\ Call(t, "OnChange", "lock")
    /\ argcb' = [argcb EXCEPT ![t] = cb]
    /\ UNCHANGED <<holder, mu, handles, nested, arg, ret, fired, history>>

CallCancel(t, h) ==
    /\ Call(t, "cancel", "lock")
    /\ argcb' = [argcb EXCEPT ![t] = h]
    /\ UNCHANGED <<holder, mu, handles, nested, arg, ret, fired, history>>

\* ------------------------------------------------------------- sync.RWMutex
\* The first statement of each method after it has the exclusive mode.
Entry(method) ==
    CASE method = "Update" -> "u_write"
      [] method = "InitData" -> "i_check"
      [] method = "OnChange" -> "o_set"
      [] method = "cancel" -> "c_clear"

\* A Lock that does not wait for the writer or the readers before it.
LockBarge(t) ==
    /\ pc[t] = "lock"
    /\ mu' = [mu EXCEPT !.writer = t]
    /\ pc' = [pc EXCEPT ![t] = Entry(op[t])]
    /\ before' = [before EXCEPT ![t] = data]
    /\ UNCHANGED <<holder, handles, op, nested, locals, nops,
                   lastWrite, written, lastReg, cancelled>>

\* m.mu.Lock(): one writer at a time announces itself, then waits until the
\* readers that hold the shared mode have left.
Lock(t) ==
    /\ pc[t] = "lock"
    /\ mu.writer = NoThread
    /\ mu' = [mu EXCEPT !.writer = t]
    /\ pc' = [pc EXCEPT ![t] = IF mu.readers = {} THEN Entry(op[t]) ELSE "wwait"]
    /\ before' = [before EXCEPT ![t] = data]
    /\ UNCHANGED <<holder, handles, op, nested, locals, nops,
                   lastWrite, written, lastReg, cancelled>>

LockWait(t) ==
    /\ pc[t] = "wwait"
    /\ mu.readers = {}
    /\ pc' = [pc EXCEPT ![t] = Entry(op[t])]
    /\ before' = [before EXCEPT ![t] = data]
    /\ UNCHANGED <<holder, mu, handles, op, nested, locals, nops,
                   lastWrite, written, lastReg, cancelled>>

\* An RLock that enters although a writer holds or waits for the lock.
RLockBarge(t) ==
    /\ pc[t] = "rlock"
    /\ mu' = [mu EXCEPT !.readers = @ \cup {t}]
    /\ pc' = [pc EXCEPT ![t] = "read1"]
    /\ UNCHANGED <<holder, handles, op, nested, locals, nops, history>>

\* An RLock that also waits while another reader holds the lock, as a plain
\* mutex would.
RLockExclusive(t) ==
    /\ pc[t] = "rlock"
    /\ IF mu.writer = NoThread /\ mu.readers = {}
       THEN /\ mu' = [mu EXCEPT !.readers = @ \cup {t}]
            /\ pc' = [pc EXCEPT ![t] = "read1"]
       ELSE /\ mu' = [mu EXCEPT !.blocked = @ \cup {t}]
            /\ pc' = [pc EXCEPT ![t] = "rwait"]
    /\ UNCHANGED <<holder, handles, op, nested, locals, nops, history>>

\* m.mu.RLock(): enters unless a writer holds or waits for the lock; then it
\* queues until that writer's Unlock.
RLock(t) ==
    /\ pc[t] = "rlock"
    /\ IF mu.writer = NoThread
       THEN /\ mu' = [mu EXCEPT !.readers = @ \cup {t}]
            /\ pc' = [pc EXCEPT ![t] = "read1"]
       ELSE /\ mu' = [mu EXCEPT !.blocked = @ \cup {t}]
            /\ pc' = [pc EXCEPT ![t] = "rwait"]
    /\ UNCHANGED <<holder, handles, op, nested, locals, nops, history>>

RLockWait(t) ==
    /\ pc[t] = "rwait"
    /\ t \in mu.readers
    /\ pc' = [pc EXCEPT ![t] = "read1"]
    /\ UNCHANGED <<holder, mu, handles, op, nested, locals, nops, history>>

\* ------------------------------------------------------------- Get
\* return m.data copies the string header: first the data pointer ...
GetReadPtr(t) ==
    /\ pc[t] = "read1"
    /\ ret' = [ret EXCEPT ![t] = [ptr |-> data.ptr, len |-> 0]]
    /\ pc' = [pc EXCEPT ![t] = "read2"]
    /\ UNCHANGED <<holder, mu, handles, op, nested, arg, argcb, fired, nops, history>>

\* ... then the length.
GetReadLen(t) ==
    /\ pc[t] = "read2"
    /\ ret' = [ret EXCEPT ![t].len = data.len]
    /\ pc' = [pc EXCEPT ![t] = "runlock"]
    /\ UNCHANGED <<holder, mu, handles, op, nested, arg, argcb, fired, nops, history>>

\* defer m.mu.RUnlock(), then Get returns ret; a Get made by the observer
\* returns into Update, which goes on to its own deferred Unlock.
RUnlock(t) ==
    /\ pc[t] = "runlock"
    /\ mu' = [mu EXCEPT !.readers = @ \ {t}]
    /\ pc' = [pc EXCEPT ![t] = IF nested[t] THEN "unlock" ELSE "idle"]
    /\ op' = [op EXCEPT ![t] = IF nested[t] THEN "Update" ELSE "none"]
    /\ nested' = [nested EXCEPT ![t] = FALSE]
    /\ ret' = [ret EXCEPT ![t] = ZeroValue]
    /\ UNCHANGED <<holder, handles, arg, argcb, fired, nops, history>>

\* ------------------------------------------------------------- Update
\* An Update that leaves m.data as it was.
UpdateWriteLost(t) ==
    /\ pc[t] = "u_write"
    /\ lastWrite' = [op |-> "Update", val |-> arg[t]]
    /\ written' = written \cup {arg[t]}
    /\ pc' = [pc EXCEPT ![t] = "u_cb"]
    /\ UNCHANGED <<holder, mu, handles, op, nested, locals, nops, lastReg,
                   cancelled, before>>

\* An Update that releases the lock before it notifies the observer.
UpdateWriteUnlocks(t) ==
    /\ pc[t] = "u_write"
    /\ data' = arg[t]
    /\ mu' = [writer |-> NoThread, readers |-> mu.blocked, blocked |-> {}]
    /\ lastWrite' = [op |-> "Update", val |-> arg[t]]
    /\ written' = written \cup {arg[t]}
    /\ pc' = [pc EXCEPT ![t] = "u_cb"]
    /\ UNCHANGED <<callback, conf, handles, op, nested, locals, nops, lastReg,
                   cancelled, before>>

\* m.data = newData
UpdateWrite(t) ==
    /\ pc[t] = "u_write"
    /\ data' = arg[t]
    /\ lastWrite' = [op |-> "Update", val |-> arg[t]]
    /\ written' = written \cup {arg[t]}
    /\ pc' = [pc EXCEPT ![t] = "u_cb"]
    /\ UNCHANGED <<callback, conf, mu, handles, op, nested, locals, nops, lastReg,
                   cancelled, before>>

\* An Update that never notifies.
UpdateNotifySilent(t) ==
    /\ pc[t] = "u_cb"
    /\ pc' = [pc EXCEPT ![t] = "unlock"]
    /\ UNCHANGED <<holder, mu, handles, op, nested, locals, nops, history>>

\* if m.callback != nil { m.callback(newData) }: the observer runs in the
\* caller's goroutine, inside Update; does is what its body does.
UpdateNotify(t) ==
    /\ pc[t] = "u_cb"
    /\ IF callback = Nil
       THEN /\ pc' = [pc EXCEPT ![t] = "unlock"]
            /\ UNCHANGED <<op, nested, fired>>
       ELSE \E does \in Body(callback) :
            /\ fired' = [fired EXCEPT ![t] = Append(@, [cb |-> callback, v |-> arg[t]])]
            /\ pc' = [pc EXCEPT ![t] =
                        CASE does = "Get" -> "rlock"
                          [] does = "Update" -> "lock"
                          [] OTHER -> "unlock"]
            /\ op' = [op EXCEPT ![t] = IF does = "Get" THEN "Get" ELSE @]
            /\ nested' = [nested EXCEPT ![t] = does # "return"]
    /\ UNCHANGED <<holder, mu, handles, arg, argcb, ret, nops, history>>

\* ------------------------------------------------------------- InitData
\* An InitData that overwrites whatever is stored.
InitDataCheckAlways(t) ==
    /\ pc[t] = "i_check"
    /\ pc' = [pc EXCEPT ![t] = "i_write"]
    /\ UNCHANGED <<holder, mu, handles, op, nested, locals, nops, history>>

\* if isZeroValue(m.data)
InitDataCheck(t) ==
    /\ pc[t] = "i_check"
    /\ pc' = [pc EXCEPT ![t] = IF isZeroValue(data) THEN "i_write" ELSE "unlock"]
    /\ UNCHANGED <<holder, mu, handles, op, nested, locals, nops, history>>

\* An InitData that tells the registered observer about the value it stores.
InitDataWriteNotifies(t) ==
    /\ pc[t] = "i_write"
    /\ data' = arg[t]
    /\ lastWrite' = [op |-> "InitData", val |-> arg[t]]
    /\ written' = written \cup {arg[t]}
    /\ fired' = [fired EXCEPT ![t] =
                    IF callback = Nil THEN @
                    ELSE Append(@, [cb |-> callback, v |-> arg[t]])]
    /\ pc' = [pc EXCEPT ![t] = "unlock"]
    /\ UNCHANGED <<callback, conf, mu, handles, op, nested, arg, argcb, ret,
                   nops, lastReg, cancelled, before>>

\* m.data = initialData
InitDataWrite(t) ==
    /\ pc[t] = "i_write"
    /\ data' = arg[t]
    /\ lastWrite' = [op |-> "InitData", val |-> arg[t]]
    /\ written' = written \cup {arg[t]}
    /\ pc' = [pc EXCEPT ![t] = "unlock"]
    /\ UNCHANGED <<callback, conf, mu, handles, op, nested, locals, nops, lastReg,
                   cancelled, before>>

\* ------------------------------------------------------------- OnChange
\* An OnChange that keeps the observer already registered.
OnChangeSetFirstWins(t) ==
    /\ pc[t] = "o_set"
    /\ callback' = IF callback = Nil THEN argcb[t] ELSE callback
    /\ lastReg' = argcb[t]
    /\ cancelled' = {}
    /\ pc' = [pc EXCEPT ![t] = "unlock"]
    /\ UNCHANGED <<data, conf, mu, handles, op, nested, locals, nops, lastWrite,
                   written, before>>

\* m.callback = callback
OnChangeSet(t) ==
    /\ pc[t] = "o_set"
    /\ callback' = argcb[t]
    /\ lastReg' = argcb[t]
    /\ cancelled' = {}
    /\ pc' = [pc EXCEPT ![t] = "unlock"]
    /\ UNCHANGED <<data, conf, mu, handles, op, nested, locals, nops, lastWrite,
                   written, before>>

\* A cancel closure that leaves the observer registered.
CancelClearKeeps(t) ==
    /\ pc[t] = "c_clear"
    /\ cancelled' = cancelled \cup {argcb[t]}
    /\ pc' = [pc EXCEPT ![t] = "unlock"]
    /\ UNCHANGED <<holder, mu, handles, op, nested, locals, nops, lastWrite,
                   written, lastReg, before>>

\* the closure OnChange returned: m.callback = nil
CancelClear(t) ==
    /\ pc[t] = "c_clear"
    /\ callback' = Nil
    /\ cancelled' = cancelled \cup {argcb[t]}
    /\ pc' = [pc EXCEPT ![t] = "unlock"]
    /\ UNCHANGED <<data, conf, mu, handles, op, nested, locals, nops, lastWrite,
                   written, lastReg, before>>

\* A return that leaves the lock held, as a method without its deferred
\* Unlock would.
UnlockKeepsLock(t) ==
    /\ pc[t] = "unlock"
    /\ mu' = mu
    /\ handles' = IF op[t] = "OnChange" THEN handles \cup {argcb[t]} ELSE handles
    /\ conf' = IF op[t] = "InitData" THEN Self ELSE conf
    /\ pc' = [pc EXCEPT ![t] = IF nested[t] THEN "unlock" ELSE "idle"]
    /\ op' = [op EXCEPT ![t] = IF nested[t] THEN "Update" ELSE "none"]
    /\ nested' = [nested EXCEPT ![t] = FALSE]
    /\ fired' = [fired EXCEPT ![t] = IF nested[t] THEN @ ELSE <<>>]
    /\ arg' = [arg EXCEPT ![t] = IF nested[t] THEN @ ELSE ZeroValue]
    /\ argcb' = [argcb EXCEPT ![t] = Nil]
    /\ before' = [before EXCEPT ![t] = IF nested[t] THEN @ ELSE ZeroValue]
    /\ UNCHANGED <<data, callback, ret, nops, lastWrite, written, lastReg, cancelled>>

\* ------------------------------------------------------------- return
\* defer m.mu.Unlock(): the readers queued behind the writer enter; then the
\* method returns: OnChange its cancel closure, InitData the receiver m.
Unlock(t) ==
    /\ pc[t] = "unlock"
    /\ mu' = [writer |-> NoThread, readers |-> mu.blocked, blocked |-> {}]
    /\ handles' = IF op[t] = "OnChange" THEN handles \cup {argcb[t]} ELSE handles
    /\ conf' = IF op[t] = "InitData" THEN Self ELSE conf
    /\ pc' = [pc EXCEPT ![t] = IF nested[t] THEN "unlock" ELSE "idle"]
    /\ op' = [op EXCEPT ![t] = IF nested[t] THEN "Update" ELSE "none"]
    /\ nested' = [nested EXCEPT ![t] = FALSE]
    /\ fired' = [fired EXCEPT ![t] = IF nested[t] THEN @ ELSE <<>>]
    /\ arg' = [arg EXCEPT ![t] = IF nested[t] THEN @ ELSE ZeroValue]
    /\ argcb' = [argcb EXCEPT ![t] = Nil]
    /\ before' = [before EXCEPT ![t] = IF nested[t] THEN @ ELSE ZeroValue]
    /\ UNCHANGED <<data, callback, ret, nops, lastWrite, written, lastReg, cancelled>>

\* ------------------------------------------------------------- Watch
CallWatch(t) ==
    /\ Call(t, "Watch", "watch")
    /\ UNCHANGED <<holder, mu, handles, nested, locals, history>>

\* A Watch that hands back a copy of the holder.
WatchResultCopy(m) == "copy"

\* return m
WatchResult(m) == m

WatchReturn(t) ==
    /\ pc[t] = "watch"
    /\ conf' = WatchResult(Self)
    /\ pc' = [pc EXCEPT ![t] = "idle"]
    /\ op' = [op EXCEPT ![t] = "none"]
    /\ UNCHANGED <<data, callback, mu, handles, nested, locals, nops, history>>

\* ------------------------------------------------------------- Update's result
\* An Update that rejects the zero value.
UpdateResultRejectsZero(newData) == IF newData = ZeroValue THEN "error" ELSE Nil

\* return nil
UpdateResult(newData) == Nil

\* Unlock, with what the caller of Update gets back.
Return(t) ==
    /\ Unlock(t)
    /\ err' = IF op[t] = "Update" /\ ~nested[t] THEN UpdateResult(arg[t]) ELSE err

\* One step of goroutine t in a method of the holder, calls apart.
MethodStep(t) ==
    \/ Lock(t) /\ UNCHANGED rest
    \/ LockWait(t) /\ UNCHANGED rest
    \/ RLock(t) /\ UNCHANGED rest
    \/ RLockWait(t) /\ UNCHANGED rest
    \/ GetReadPtr(t) /\ UNCHANGED rest
    \/ GetReadLen(t) /\ UNCHANGED rest
    \/ RUnlock(t) /\ UNCHANGED rest
    \/ UpdateWrite(t) /\ UNCHANGED rest
    \/ UpdateNotify(t) /\ UNCHANGED rest
    \/ InitDataCheck(t) /\ UNCHANGED rest
    \/ InitDataWrite(t) /\ UNCHANGED rest
    \/ OnChangeSet(t) /\ UNCHANGED rest
    \/ CancelClear(t) /\ UNCHANGED rest
    \/ WatchReturn(t) /\ UNCHANGED rest
    \/ Return(t) /\ UNCHANGED <<lib, logs>>

\* A goroutine calls a method, with a value and an observer of the given sets.
CallStep(t, values, observers) ==
    \/ CallGet(t) /\ UNCHANGED rest
    \/ \E v \in values : CallUpdate(t, v) /\ UNCHANGED rest
    \/ \E v \in values : CallInitData(t, v) /\ UNCHANGED rest
    \/ \E cb \in observers : CallOnChange(t, cb) /\ UNCHANGED rest
    \/ \E h \in handles : CallCancel(t, h) /\ UNCHANGED rest
    \/ CallWatch(t) /\ UNCHANGED rest

Next == \E t \in Threads : CallStep(t, Values, Observers) \/ MethodStep(t)

Spec == Init /\ [][Next]_vars

\* ============================================================= properties
\* A goroutine is about to return from the named method: its work is done
\* and only the deferred unlock is left.
Returning(t, method) == pc[t] = "unlock" /\ op[t] = method /\ ~nested[t]

\* A goroutine is inside a section guarded by the exclusive / the shared mode.
WriterCS(t) ==
    \/ nested[t]
    \/ pc[t] \in {"u_write", "u_cb", "i_check", "i_write", "o_set", "c_clear", "unlock"}

ReaderCS(t) == pc[t] \in {"read1", "read2", "runlock"}

\* ============================================================= package errorx
\* The error values a program builds are objects on the heap: an error is the
\* address of its object, address 0 is nil.
MaxErrs == 3
ErrCodeSecretTooShort == 1001
Msgs == {"boom", "invalid secret"}
Sites == {"main.main", "main.Validate"}
Addrs == 0..Len(heap)

\* The frames runtime.Caller sees when a constructor called at the given site
\* captures the stack, innermost first.
CallChain(ctor, site) == <<"errorx.captureStack", ctor, site, "runtime.main">>

\* for i := 2; ; i++: the walk starts two frames above captureStack's own.
captureStack(ctor, site) ==
    LET chain == CallChain(ctor, site) IN SubSeq(chain, 3, Len(chain))

customError(msg, code, stack, cause) ==
    [custom |-> TRUE, msg |-> msg, code |-> code, errType |-> "",
     stack |-> stack, cause |-> cause]

\* An error of another package (errors.New, fmt.Errorf without %w).
stdError(msg) ==
    [custom |-> FALSE, msg |-> msg, code |-> 0, errType |-> "",
     stack |-> <<>>, cause |-> 0]

Error(h, a) == h[a].msg
Unwrap(h, a) == h[a].cause
Cause(h, a) == h[a].cause

\* The object of an error just built, and where its chain of Wraps began.
Alloc(obj, origin) ==
    /\ Len(heap) < MaxErrs
    /\ heap' = Append(heap, obj)
    /\ made' = Append(made, origin)

StdError(msg) ==
    /\ Alloc(stdError(msg), [root |-> Len(heap) + 1, depth |-> 0])
    /\ UNCHANGED <<wrap, etcd, mvars, err, logs>>

New(msg, site) ==
    /\ Alloc(customError(msg, 0, captureStack("errorx.New", site), 0),
             [root |-> Len(heap) + 1, depth |-> 0])
    /\ UNCHANGED <<wrap, etcd, mvars, err, logs>>

C(code, msg, site) ==
    /\ Alloc(customError(msg, code, captureStack("errorx.C", site), 0),
             [root |-> Len(heap) + 1, depth |-> 0])
    /\ UNCHANGED <<wrap, etcd, mvars, err, logs>>

\* A Wrap that takes the place of the error it is given, adopting its cause.
WrapErrorFlat(h, a, site) ==
    customError(Error(h, a), 0, captureStack("errorx.Wrap", site), Cause(h, a))

\* &customError{msg: err.Error(), cause: err, stack: captureStack()}
WrapError(h, a, site) ==
    customError(Error(h, a), 0, captureStack("errorx.Wrap", site), a)

Wrap(a, site) ==
    /\ IF a = 0
       THEN /\ wrap' = [called |-> TRUE, arg |-> 0, res |-> 0]
            /\ UNCHANGED <<heap, made>>
       ELSE /\ Alloc(WrapError(heap, a, site),
                     [root |-> made[a].root, depth |-> made[a].depth + 1])
            /\ wrap' = [called |-> TRUE, arg |-> a, res |-> Len(heap) + 1]
    /\ UNCHANGED <<etcd, mvars, err, logs>>

\* ============================================================= Etcd
\* //TODO: implement; return nil
Etcd == [called |-> TRUE, mgr |-> Nil, panics |-> FALSE]

CallEtcd ==
    /\ etcd' = Etcd
    /\ UNCHANGED <<heap, wrap, made, mvars, err, logs>>

NextLib ==
    \/ \E msg \in Msgs : StdError(msg)
    \/ \E msg \in Msgs, site \in Sites : New(msg, site)
    \/ \E msg \in Msgs, site \in Sites : C(ErrCodeSecretTooShort, msg, site)
    \/ \E a \in Addrs, site \in Sites : Wrap(a, site)
    \/ CallEtcd

SpecLib == Init /\ [][NextLib]_vars

\* ============================================================= one observer throughout
\* The holder after m.OnChange(cb1) has returned; from here on the program
\* only calls Get and Update, so cb1 stays registered.
InitObs ==
    /\ data = ZeroValue
    /\ callback = "cb1"
    /\ conf = Self
    /\ mu = [writer |-> NoThread, readers |-> {}, blocked |-> {}]
    /\ InitRest
    /\ pc = [t \in Threads |-> "idle"]
    /\ op = [t \in Threads |-> "none"]
    /\ nested = [t \in Threads |-> FALSE]
    /\ arg = [t \in Threads |-> ZeroValue]
    /\ argcb = [t \in Threads |-> Nil]
    /\ ret = [t \in Threads |-> ZeroValue]
    /\ handles = {"cb1"}
    /\ fired = [t \in Threads |-> <<>>]
    /\ nops = 1
    /\ lastWrite = [op |-> "none", val |-> ZeroValue]
    /\ written = {ZeroValue}
    /\ lastReg = "cb1"
    /\ cancelled = {}
    /\ before = [t \in Threads |-> ZeroValue]

\* m.data = newData, with the stored value put on record.
UpdateWriteLogged(t) ==
    /\ UpdateWrite(t)
    /\ writeLog' = Append(writeLog, data')
    /\ UNCHANGED <<err, lib, obsLog>>

\* m.callback(newData), with the observer's argument put on record.
UpdateNotifyLogged(t) ==
    /\ UpdateNotify(t)
    /\ obsLog' = IF Len(fired'[t]) > Len(fired[t])
                 THEN Append(obsLog, fired'[t][Len(fired'[t])].v)
                 ELSE obsLog
    /\ UNCHANGED <<err, lib, writeLog>>

NextObs ==
    \E t \in Threads :
        \/ CallGet(t) /\ UNCHANGED rest
        \/ \E v \in Values : CallUpdate(t, v) /\ UNCHANGED rest
        \/ Lock(t) /\ UNCHANGED rest
        \/ LockWait(t) /\ UNCHANGED rest
        \/ RLock(t) /\ UNCHANGED rest
        \/ RLockWait(t) /\ UNCHANGED rest
        \/ GetReadPtr(t) /\ UNCHANGED rest
        \/ GetReadLen(t) /\ UNCHANGED rest
        \/ RUnlock(t) /\ UNCHANGED rest
        \/ UpdateWriteLogged(t)
        \/ UpdateNotifyLogged(t)
        \/ Return(t) /\ UNCHANGED <<lib, logs>>

SpecObs == InitObs /\ [][NextObs]_vars

\* ============================================================= fair scheduling
\* The observers that return without calling the holder.
PlainObservers == {cb \in Observers : Body(cb) = {"return"}}

\* Which value is stored decides nothing about who waits for whom, except
\* whether InitData finds the holder empty, as the first one does.
FairValues == {HelloWorld}

NextFair ==
    \E t \in Threads : CallStep(t, FairValues, PlainObservers) \/ MethodStep(t)

\* The scheduler runs every goroutine that can take a step.
Fairness == \A t \in Threads : WF_vars(MethodStep(t))

SpecFair == Init /\ [][NextFair]_vars /\ Fairness

\* C1: when the latest write to the holder that took effect is Update(v),
\* a Get that returns now returns exactly v, both words of it.
C1_GetReturnsLastUpdate ==
    \A t \in Threads :
        (pc[t] = "runlock" /\ lastWrite.op = "Update") => ret[t] = lastWrite.val

C1_Witness ==
    \E t \in Threads :
        /\ pc[t] = "runlock"
        /\ lastWrite = [op |-> "Update", val |-> UpdatedSecret]
        /\ ret[t] = UpdatedSecret
        /\ HelloWorld \in written

\* C2: an InitData that found the zero value stored leaves its argument
\* stored; one that found another value leaves that value stored, whatever
\* its argument; and the Manager it returns is the holder itself.
C2_InitDataSetsOnlyZero ==
    /\ conf = Self
    /\ \A t \in Threads :
          Returning(t, "InitData") =>
              data = IF before[t] = ZeroValue THEN arg[t] ELSE before[t]

C2_Witness ==
    \E t \in Threads :
        /\ Returning(t, "InitData")
        /\ lastWrite = [op |-> "InitData", val |-> HelloWorld]
        /\ before[t] = HelloWorld
        /\ arg[t] = UpdatedSecret
        /\ data = HelloWorld

\* C3: an Update(v) that ran while observer cb was registered has, when it
\* returns, invoked cb exactly once, with v, and nothing else; also when v
\* is the value that was stored already.
C3_UpdateNotifiesOnce ==
    \A t \in Threads :
        (Returning(t, "Update") /\ callback # Nil) =>
            fired[t] = <<[cb |-> callback, v |-> arg[t]]>>

C3_Witness ==
    \E t \in Threads :
        /\ Returning(t, "Update")
        /\ callback = "cb1"
        /\ arg[t] = HelloWorld
        /\ before[t] = HelloWorld
        /\ fired[t] = <<[cb |-> "cb1", v |-> HelloWorld]>>

\* C4: the cancel closure of a replaced observer is a no-op: as long as the
\* closure of the latest registered observer has not been called, that
\* observer stays registered.
C4_StaleCancelIsNoOp ==
    (lastReg # Nil /\ lastReg \notin cancelled) => callback = lastReg

\* C5: an observer whose cancel closure has been called, with no OnChange
\* since, is invoked by no Update; and calling the closure again changes
\* neither m.data nor m.callback.
C5_CancelledNeverFires ==
    /\ [](\A t \in Threads : \A i \in DOMAIN fired[t] : fired[t][i].cb \notin cancelled)
    /\ [][\A t \in Threads :
            (pc[t] = "c_clear" /\ argcb[t] \in cancelled) =>
                (callback' = callback /\ data' = data)]_vars

C5_Witness ==
    \E t \in Threads :
        /\ Returning(t, "Update")
        /\ lastReg = "cb1"
        /\ cancelled = {"cb1"}
        /\ fired[t] = <<>>

\* C6: an Update invokes at most one observer, and only the one registered
\* last: after OnChange(cb1), OnChange(cb2) and no cancel since, it invokes
\* cb2 once with its argument, and never cb1.
C6_OnlyLatestObserverFires ==
    \A t \in Threads :
        Returning(t, "Update") =>
            /\ Len(fired[t]) <= 1
            /\ \A i \in DOMAIN fired[t] : fired[t][i].cb = lastReg
            /\ (lastReg # Nil /\ cancelled = {}) =>
                   fired[t] = <<[cb |-> lastReg, v |-> arg[t]]>>

C6_Witness ==
    \E t \in Threads :
        /\ Returning(t, "Update")
        /\ handles = {"cb1", "cb2"}
        /\ lastReg = "cb2"
        /\ cancelled = {}
        /\ fired[t] = <<[cb |-> "cb2", v |-> arg[t]]>>

\* C7 as stated: once the stored value is not the zero value, it never is
\* the zero value again.
C7_NeverBackToZero == [][data # ZeroValue => data' # ZeroValue]_vars

\* C7 amended: a stored value that is not the zero value becomes the zero
\* value only by an Update whose argument is the zero value, and no step of
\* InitData changes a stored value that is not the zero value.
C7_ZeroOnlyByUpdateOfZero ==
    [][/\ (data # ZeroValue /\ data' = ZeroValue) =>
              \E t \in Threads :
                  pc[t] = "u_write" /\ pc'[t] = "u_cb" /\ arg[t] = ZeroValue
       /\ \A t \in Threads :
              (op[t] = "InitData" /\ pc'[t] # pc[t] /\ data # ZeroValue) =>
                  data' = data]_vars

C7_Witness ==
    \E t \in Threads :
        /\ Returning(t, "InitData")
        /\ lastWrite = [op |-> "Update", val |-> UpdatedSecret]
        /\ arg[t] = HelloWorld
        /\ data = UpdatedSecret

\* C8: while a goroutine is inside the exclusive section of Update,
\* InitData, OnChange or a cancel closure, no other goroutine is inside any
\* of those sections or inside Get's; Get's section may be shared.
C8_WritersExclude ==
    \A t, u \in Threads :
        (t # u /\ WriterCS(t)) => (~WriterCS(u) /\ ~ReaderCS(u))

\* Two goroutines share Get's section after a writer has been through its own.
C8_Witness ==
    \E t, u \in Threads :
        /\ t # u
        /\ ReaderCS(t)
        /\ ReaderCS(u)
        /\ lastWrite.op # "none"

\* C9: the value a Get returns is one that m.data held as a whole: the
\* initial zero value or the argument of a write that took effect, never
\* the pointer of one value with the length of another.
C9_GetNeverTorn ==
    \A t \in Threads : pc[t] = "runlock" => ret[t] \in written

\* A Get returns one whole value while an Update of another waits for it.
C9_Witness ==
    \E t, u \in Threads :
        /\ pc[t] = "runlock"
        /\ ret[t] = HelloWorld
        /\ pc[u] = "wwait"
        /\ op[u] = "Update"
        /\ arg[u] = UpdatedSecret

\* C10: a goroutine whose Update invoked an observer that calls Get or
\* Update on the holder holds the exclusive lock and waits at that inner
\* lock call; it stays there in every later state, so the Update never
\* returns and the lock is never released.
C10_ReentrantObserverDeadlocks ==
    /\ [](\A t \in Threads :
            nested[t] => (mu.writer = t /\ pc[t] \in {"lock", "rlock", "rwait"}))
    /\ [](\A t \in Threads :
            pc[t] = "unlock" => \A i \in DOMAIN fired[t] : fired[t][i].cb # "cbReenter")
    /\ [][\A t \in Threads : nested[t] => (nested'[t] /\ mu'.writer = t)]_vars

C10_Witness ==
    \E t, u \in Threads :
        /\ nested[t]
        /\ op[t] = "Get"
        /\ pc[t] = "rwait"
        /\ fired[t] = <<[cb |-> "cbReenter", v |-> arg[t]]>>
        /\ pc[u] = "lock"

\* C11: InitData's zero check and its write are one step for every other
\* goroutine: a goroutine about to execute InitData's write finds the zero
\* value stored, so the write never replaces a value an Update or another
\* InitData stored; an InitData that found the zero value is the write that
\* took effect, and one that found another value changed nothing.
C11_InitDataCheckAndSetAtomic ==
    \A t \in Threads :
        /\ pc[t] = "i_write" => (data = ZeroValue /\ before[t] = ZeroValue)
        /\ Returning(t, "InitData") =>
               IF before[t] = ZeroValue
               THEN lastWrite = [op |-> "InitData", val |-> arg[t]] /\ data = arg[t]
               ELSE data = before[t] /\ lastWrite.val = before[t]

\* One InitData is at its write while a second one, with another argument,
\* waits for the lock.
C11_Witness ==
    \E t, u \in Threads :
        /\ pc[t] = "i_write"
        /\ arg[t] = HelloWorld
        /\ op[u] = "InitData"
        /\ pc[u] = "lock"
        /\ arg[u] = UpdatedSecret

\* A Get waits in m.mu.RLock().
GetBlocked(t) == pc[t] = "rwait" /\ t \notin mu.readers

\* The method of the call that made goroutine u take the exclusive lock.
LockedBy(u) == IF nested[u] THEN "Update" ELSE op[u]

\* C12 as stated: whenever a Get is blocked, the goroutine that holds (or
\* waits for) the exclusive lock is executing Update or InitData.
C12_GetBlockedOnlyByUpdateOrInitData ==
    \A t \in Threads :
        GetBlocked(t) =>
            \E u \in Threads : mu.writer = u /\ LockedBy(u) \in {"Update", "InitData"}

\* C12 amended: a Get is blocked only while some goroutine holds or waits
\* for the exclusive lock, whichever of Update, InitData, OnChange or a
\* cancel closure took it; readers never block each other, and an RLock
\* made while no goroutine holds or waits for the exclusive lock enters.
C12_GetBlockedOnlyByAWriter ==
    /\ [](\A t \in Threads : GetBlocked(t) => mu.writer # NoThread)
    /\ [][\A t \in Threads :
            (pc[t] = "rlock" /\ pc'[t] # "rlock") =>
                IF mu.writer = NoThread
                THEN pc'[t] = "read1" /\ t \in mu'.readers
                ELSE pc'[t] = "rwait"]_vars

\* A Get waits behind an OnChange that holds the exclusive lock.
C12_Witness ==
    \E t, u \in Threads :
        /\ GetBlocked(t)
        /\ mu.writer = u
        /\ op[u] = "OnChange"
        /\ pc[u] = "o_set"

\* C13: the holder Local() returns stores the zero value and no observer: a
\* Get that returns before any write took effect returns the zero value,
\* and an Update that returns before any OnChange took effect invoked
\* nobody.
C13_FreshHolderIsEmpty ==
    /\ nops = 0 => (data = ZeroValue /\ callback = Nil)
    /\ \A t \in Threads :
          /\ (pc[t] = "runlock" /\ lastWrite.op = "none") => ret[t] = ZeroValue
          /\ (Returning(t, "Update") /\ lastReg = Nil) => fired[t] = <<>>

C13_Witness ==
    \E t, u \in Threads :
        /\ Returning(t, "Update")
        /\ arg[t] = HelloWorld
        /\ lastReg = Nil
        /\ fired[t] = <<>>
        /\ op[u] = "Get"


\* C14: Update reports no error in every reachable state; in the scenario of
\* main (InitData on the fresh holder, then Update(v), then Get) Update has
\* returned no error and Get returns v.
C14_UpdateNeverFails ==
    /\ err \in {NoResult, Nil}
    /\ \A t \in Threads :
          (pc[t] = "runlock" /\ err = Nil /\ lastWrite.op = "Update") =>
              ret[t] = lastWrite.val

C14_Witness ==
    \E t \in Threads :
        /\ pc[t] = "runlock"
        /\ err = Nil
        /\ HelloWorld \in written
        /\ lastWrite = [op |-> "Update", val |-> UpdatedSecret]
        /\ ret[t] = UpdatedSecret


\* C15: Watch hands back the holder it was called on, never a copy: the handle
\* the program keeps always names the one store, and the step in which Watch
\* returns changes neither the stored value, nor the observer slot, nor the lock.
C15_WatchReturnsSameHolder ==
    /\ [](conf = Self)
    /\ [][\A t \in Threads :
            (pc[t] = "watch" /\ pc'[t] = "idle") =>
                /\ conf' = Self
                /\ data' = data
                /\ callback' = callback
                /\ mu' = mu]_vars

C15_Witness ==
    \E t \in Threads :
        /\ pc[t] = "watch"
        /\ data = HelloWorld
        /\ callback = "cb1"
        /\ nops = 3


RECURSIVE UnwrapTimes(_, _, _)
UnwrapTimes(h, a, n) == IF n = 0 THEN a ELSE UnwrapTimes(h, Unwrap(h, a), n - 1)

\* C16: Wrap(nil) is nil; for a non-nil err, Wrap(err) is a new Error whose
\* Cause() and Unwrap() are err itself and whose message is err's message; an
\* error reached by n nested Wraps gives back the original error after n
\* unwraps, and no step changes an error that already exists.
C16_WrapKeepsCause ==
    /\ [](wrap.called =>
            IF wrap.arg = 0
            THEN wrap.res = 0
            ELSE /\ wrap.res \in 1..Len(heap)
                 /\ wrap.res # wrap.arg
                 /\ heap[wrap.res].custom
                 /\ Cause(heap, wrap.res) = wrap.arg
                 /\ Unwrap(heap, wrap.res) = wrap.arg
                 /\ Error(heap, wrap.res) = Error(heap, wrap.arg))
    /\ [](\A a \in 1..Len(heap) :
            /\ UnwrapTimes(heap, a, made[a].depth) = made[a].root
            /\ Error(heap, a) = Error(heap, made[a].root))
    /\ [][\A a \in 1..Len(heap) : heap'[a] = heap[a]]_vars

C16_Witness ==
    /\ wrap.called
    /\ wrap.arg # 0
    /\ made[wrap.res].depth = 2
    /\ ~heap[made[wrap.res].root].custom


\* C17: a call of the Etcd constructor fails fast or hands back a usable
\* holder; it never returns normally with no holder at all.
C17_EtcdNeverReturnsNothing ==
    etcd.called => (etcd.panics \/ etcd.mgr # Nil)


\* C18: while one observer stays registered and goroutines call Update
\* concurrently, the observer's arguments are, in order, the values stored:
\* at most one notification is in progress, it belongs to the latest store,
\* and a Get, as well as the holder once every Update has returned, gives the
\* argument of the latest notification.
C18_ObserverSeesWritesInOrder ==
    /\ Cardinality({t \in Threads : pc[t] = "u_cb"}) <= 1
    /\ Len(writeLog) = Len(obsLog) + (IF \E t \in Threads : pc[t] = "u_cb" THEN 1 ELSE 0)
    /\ \A i \in DOMAIN obsLog : obsLog[i] = writeLog[i]
    /\ \A t \in Threads :
          (pc[t] = "runlock" /\ obsLog # <<>>) => ret[t] = obsLog[Len(obsLog)]
    /\ ((\A t \in Threads : op[t] # "Update") /\ obsLog # <<>>) =>
          (obsLog = writeLog /\ data = obsLog[Len(obsLog)])

C18_Witness ==
    \E t, u \in Threads :
        /\ pc[t] = "u_cb"
        /\ writeLog = <<HelloWorld, UpdatedSecret>>
        /\ obsLog = <<HelloWorld>>
        /\ pc[u] = "lock"
        /\ op[u] = "Update"
        /\ arg[u] = ZeroValue


\* The method goroutine t is executing in a step it takes.
Running(t) == IF pc[t] = "idle" THEN op'[t] ELSE op[t]

\* C19: no step of InitData invokes the observer or changes the observer
\* slot, whether or not it replaces the stored value; no step of Get, Update
\* or Watch changes the observer slot; no step of OnChange or of a
\* cancellation handle changes the stored value.
C19_FrameEffects ==
    /\ [](\A t \in Threads : op[t] = "InitData" => fired[t] = <<>>)
    /\ [][\A t \in Threads :
            pc'[t] # pc[t] =>
                /\ Running(t) = "InitData" => (fired' = fired /\ callback' = callback)
                /\ Running(t) \in {"Get", "Update", "Watch"} => callback' = callback
                /\ Running(t) \in {"OnChange", "cancel"} => data' = data]_vars

C19_Witness ==
    \E t \in Threads :
        /\ Returning(t, "InitData")
        /\ callback = "cb1"
        /\ lastWrite = [op |-> "InitData", val |-> HelloWorld]
        /\ data = HelloWorld
        /\ fired[t] = <<>>


\* A pending call that cannot take its next step in this state.
Blocked(t) ==
    \/ pc[t] = "lock" /\ mu.writer # NoThread
    \/ pc[t] = "wwait" /\ mu.readers # {}
    \/ pc[t] = "rwait" /\ t \notin mu.readers

\* C20: with observers that return without calling the holder and a fair
\* scheduler, every call of Get, Update, InitData, OnChange and a cancellation
\* handle returns; the lock is free whenever no call is pending, and some
\* pending call can always take a step.
C20_EveryCallReturns ==
    /\ \A t \in Threads : (pc[t] # "idle") ~> (pc[t] = "idle")
    /\ []((\A t \in Threads : pc[t] = "idle") =>
            mu = [writer |-> NoThread, readers |-> {}, blocked |-> {}])
    /\ []((\E t \in Threads : pc[t] # "idle") =>
            (\E t \in Threads : pc[t] # "idle" /\ ~Blocked(t)))

C20_Witness ==
    \E t, u \in Threads :
        /\ pc[t] = "u_cb"
        /\ callback = "cb1"
        /\ Blocked(u)
        /\ pc[u] = "rwait"
        /\ nops = MaxOps

====
